---- MODULE Spec2Model ----
(***************************************************************************)
(* A model of src/main.py: the loader (load_and_merge_data), the graph     *)
(* builder (build_partially_directed_graph), the detector                  *)
(* (detect_suspicious_patterns), the scorer (score_suspicion) and the      *)
(* cluster analysis (find_coauthor_clusters_directed).                     *)
(*                                                                         *)
(* Python strings that the code inspects (names, relationship labels) are  *)
(* sequences of one-character strings, so that strip(), lower(), the       *)
(* substring test `x in s` and sorted() are computed, not assumed.         *)
(* A networkx DiGraph is a record                                          *)
(*   nodes : the node keys in insertion order (the _node dict),            *)
(*   attr  : node key -> [editor_count, author_count],                     *)
(*   adj   : node key -> successors in insertion order (the _adj dict),    *)
(*   edge  : <<u, v>> -> [relationship, issues, titles].                   *)
(* Every record carries its five fields (the defaults of entry.get are not *)
(* exercised); the issue id keeps journal and special issue apart.         *)
(***************************************************************************)
EXTENDS Integers, Sequences, FiniteSets, TLC

VARIABLES
    articles,    \* the records build_partially_directed_graph has processed
    G,           \* the DiGraph built from them
    pc,          \* "build" while records are folded in, "done" after analysis
    susp,        \* result of detect_suspicious_patterns(G)
    scores,      \* result of score_suspicion(susp)
    clusters,    \* result of find_coauthor_clusters_directed(G)
    file_paths,  \* load_and_merge_data: the sources, in order
    fidx,        \* load_and_merge_data: number of sources already visited
    all_data,    \* load_and_merge_data: the accumulated records
    lpc          \* load_and_merge_data: "loading", "returned" or "aborted"

vars == <<articles, G, pc, susp, scores, clusters, file_paths, fidx, all_data, lpc>>

buildVars == <<articles, G, pc, susp, scores, clusters>>
loadVars == <<file_paths, fidx, all_data, lpc>>

----------------------------------------------------------------------------
(* Bounds of the model.                                                    *)

\* The size of the input of the builder: one per record plus one per name.
MaxInput == 6
\* The number of records of the builder's input in the cluster analysis.
MaxClusterRecords == 2
\* The number of sources of the loader, and of records in one source.
MaxFiles == 2
MaxFileRecords == 2

----------------------------------------------------------------------------
(* Strings.                                                                *)

Range(s) == {s[i] : i \in DOMAIN s}

\* ord(ch) of the characters that occur in the model's names.
CharCode(ch) ==
    CASE ch = " " -> 32
      [] ch = "A" -> 65
      [] ch = "a" -> 97
      [] ch = "b" -> 98
      [] ch = "c" -> 99
      [] ch = "d" -> 100
      [] ch = "e" -> 101
      [] ch = "f" -> 102

\* str.lower() on one character.
LowerChar(ch) == IF ch = "A" THEN "a" ELSE ch

RECURSIVE LStrip(_)
LStrip(s) == IF s # <<>> /\ Head(s) = " " THEN LStrip(Tail(s)) ELSE s

RECURSIVE RStrip(_)
RStrip(s) ==
    IF s # <<>> /\ s[Len(s)] = " " THEN RStrip(SubSeq(s, 1, Len(s) - 1)) ELSE s

\* name.strip().lower()
normalize_name(name) ==
    LET t == RStrip(LStrip(name)) IN [i \in 1..Len(t) |-> LowerChar(t[i])]

\* Python's `pat in s` on strings: pat occurs as a contiguous substring.
Contains(s, pat) ==
    \E i \in 0..(Len(s) - Len(pat)) : SubSeq(s, i + 1, i + Len(pat)) = pat

\* Python's string order (by code point, a proper prefix first).
RECURSIVE StrLess(_, _)
StrLess(s, t) ==
    IF t = <<>> THEN FALSE
    ELSE IF s = <<>> THEN TRUE
    ELSE IF Head(s) # Head(t) THEN CharCode(Head(s)) < CharCode(Head(t))
    ELSE StrLess(Tail(s), Tail(t))

\* 'editor_to_author'
EDITOR_TO_AUTHOR ==
    <<"e","d","i","t","o","r","_","t","o","_","a","u","t","h","o","r">>

\* 'co_author'
CO_AUTHOR == <<"c","o","_","a","u","t","h","o","r">>

COMMA == <<",">>

----------------------------------------------------------------------------
(* The DiGraph operations the builder uses.                                *)

EmptyGraph ==
    [nodes |-> <<>>, attr |-> <<>>, adj |-> <<>>, edge |-> <<>>]

has_node(g, n) == n \in DOMAIN g.attr

add_node(g, n) ==
    [g EXCEPT !.nodes = Append(@, n),
              !.attr = @ @@ (n :> [editor_count |-> 0, author_count |-> 0]),
              !.adj = @ @@ (n :> <<>>)]

has_edge(g, u, v) == <<u, v>> \in DOMAIN g.edge

add_edge(g, u, v, rel, issue, title) ==
    [g EXCEPT !.adj[u] = Append(@, v),
              !.edge = @ @@ (<<u, v>> :>
                  [relationship |-> rel, issues |-> <<issue>>, titles |-> <<title>>])]

\* G.edges(): for every node in insertion order, its successors in insertion order.
RECURSIVE EdgesFrom(_, _)
EdgesFrom(g, ns) ==
    IF ns = <<>> THEN <<>>
    ELSE LET u == Head(ns)
         IN [k \in 1..Len(g.adj[u]) |-> <<u, g.adj[u][k]>>] \o EdgesFrom(g, Tail(ns))

Edges(g) == EdgesFrom(g, g.nodes)

----------------------------------------------------------------------------
(* build_partially_directed_graph.                                         *)

\* issue_id = f"{journal} :: {special_issue}"
issue_id(entry) == <<entry.journal, "::", entry.special_issue>>

RECURSIVE NormalizeAll(_)
NormalizeAll(raw) ==
    IF raw = <<>> THEN <<>>
    ELSE <<normalize_name(Head(raw))>> \o NormalizeAll(Tail(raw))

\* A plausible slip: the increment sits inside the `if not G.has_node(ed)`.
CountEditorOnlyNew(g, ed) ==
    IF has_node(g, ed) THEN g
    ELSE [add_node(g, ed) EXCEPT !.attr[ed].editor_count = @ + 1]

\* One pass of the loop `for ed in editors` over the node attributes.
CountEditor(g, ed) ==
    LET g1 == IF has_node(g, ed) THEN g ELSE add_node(g, ed)
    IN [g1 EXCEPT !.attr[ed].editor_count = @ + 1]

\* One pass of the loop `for au in authors` over the node attributes.
CountAuthor(g, au) ==
    LET g1 == IF has_node(g, au) THEN g ELSE add_node(g, au)
    IN [g1 EXCEPT !.attr[au].author_count = @ + 1]

RECURSIVE CountEditors(_, _)
CountEditors(g, editors) ==
    IF editors = <<>> THEN g
    ELSE CountEditors(CountEditor(g, Head(editors)), Tail(editors))

RECURSIVE CountAuthors(_, _)
CountAuthors(g, authors) ==
    IF authors = <<>> THEN g
    ELSE CountAuthors(CountAuthor(g, Head(authors)), Tail(authors))

\* A plausible slip: the label is appended without looking for it first.
EditorEdgeAlwaysLabel(g, ed, au, issue, title) ==
    IF ~has_edge(g, ed, au)
    THEN add_edge(g, ed, au, EDITOR_TO_AUTHOR, issue, title)
    ELSE [g EXCEPT !.edge[<<ed, au>>] =
            [relationship |-> @.relationship \o COMMA \o EDITOR_TO_AUTHOR,
             issues |-> Append(@.issues, issue),
             titles |-> Append(@.titles, title)]]

\* A plausible slip: an existing edge gets the venue but not the title.
EditorEdgeNoTitle(g, ed, au, issue, title) ==
    IF ~has_edge(g, ed, au)
    THEN add_edge(g, ed, au, EDITOR_TO_AUTHOR, issue, title)
    ELSE [g EXCEPT !.edge[<<ed, au>>] =
            [relationship |->
                IF ~Contains(@.relationship, EDITOR_TO_AUTHOR)
                THEN @.relationship \o COMMA \o EDITOR_TO_AUTHOR
                ELSE @.relationship,
             issues |-> Append(@.issues, issue),
             titles |-> @.titles]]

\* The body of `for ed in editors: for au in authors:`.
EditorEdge(g, ed, au, issue, title) ==
    IF ~has_edge(g, ed, au)
    THEN add_edge(g, ed, au, EDITOR_TO_AUTHOR, issue, title)
    ELSE [g EXCEPT !.edge[<<ed, au>>] =
            [relationship |->
                IF ~Contains(@.relationship, EDITOR_TO_AUTHOR)
                THEN @.relationship \o COMMA \o EDITOR_TO_AUTHOR
                ELSE @.relationship,
             issues |-> Append(@.issues, issue),
             titles |-> Append(@.titles, title)]]

\* A plausible slip: an existing edge keeps its label, only metadata is appended.
CoAuthorEdgeNoRelabel(g, a1, a2, issue, title) ==
    IF ~has_edge(g, a1, a2)
    THEN add_edge(g, a1, a2, CO_AUTHOR, issue, title)
    ELSE [g EXCEPT !.edge[<<a1, a2>>] =
            [relationship |-> @.relationship,
             issues |-> Append(@.issues, issue),
             titles |-> Append(@.titles, title)]]

\* One direction of a co-author pair: `a1 -> a2`, and with the arguments
\* swapped the "reverse" edge `a2 -> a1`.
CoAuthorEdge(g, a1, a2, issue, title) ==
    IF ~has_edge(g, a1, a2)
    THEN add_edge(g, a1, a2, CO_AUTHOR, issue, title)
    ELSE [g EXCEPT !.edge[<<a1, a2>>] =
            [relationship |->
                IF ~Contains(@.relationship, CO_AUTHOR)
                THEN @.relationship \o COMMA \o CO_AUTHOR
                ELSE @.relationship,
             issues |-> Append(@.issues, issue),
             titles |-> Append(@.titles, title)]]

\* The index pairs of `for ed in editors: for au in authors`, in loop order.
EditorAuthorIdx(ne, na) ==
    [k \in 1..(ne * na) |-> <<((k - 1) \div na) + 1, ((k - 1) % na) + 1>>]

\* The index pairs of `for i in range(n): for j in range(i+1, n)`, in loop order.
AuthorPairIdx(n) ==
    SelectSeq([k \in 1..(n * n) |-> <<((k - 1) \div n) + 1, ((k - 1) % n) + 1>>],
              LAMBDA p : p[1] < p[2])

RECURSIVE EditorEdges(_, _, _, _, _, _)
EditorEdges(g, editors, authors, idx, issue, title) ==
    IF idx = <<>> THEN g
    ELSE EditorEdges(
            EditorEdge(g, editors[Head(idx)[1]], authors[Head(idx)[2]], issue, title),
            editors, authors, Tail(idx), issue, title)

RECURSIVE CoAuthorEdges(_, _, _, _, _)
CoAuthorEdges(g, authors, idx, issue, title) ==
    IF idx = <<>> THEN g
    ELSE LET a1 == authors[Head(idx)[1]]
             a2 == authors[Head(idx)[2]]
             g1 == CoAuthorEdge(g, a1, a2, issue, title)
             g2 == CoAuthorEdge(g1, a2, a1, issue, title)
         IN CoAuthorEdges(g2, authors, Tail(idx), issue, title)

\* The body of `for entry in articles`.
BuildEntry(g, entry) ==
    LET issue == issue_id(entry)
        editors == NormalizeAll(entry.editors)
        authors == NormalizeAll(entry.authors)
        g1 == CountEditors(g, editors)
        g2 == CountAuthors(g1, authors)
        g3 == EditorEdges(g2, editors, authors,
                          EditorAuthorIdx(Len(editors), Len(authors)),
                          issue, entry.title)
    IN CoAuthorEdges(g3, authors, AuthorPairIdx(Len(authors)), issue, entry.title)

RECURSIVE BuildFrom(_, _)
BuildFrom(g, recs) ==
    IF recs = <<>> THEN g ELSE BuildFrom(BuildEntry(g, Head(recs)), Tail(recs))

build_partially_directed_graph(recs) == BuildFrom(EmptyGraph, recs)

----------------------------------------------------------------------------
(* detect_suspicious_patterns.                                             *)

EmptyRoles == [persons |-> <<>>, issues |-> <<>>, roles |-> <<>>]

\* A plausible slip: the venues of a person are kept in a list that is
\* appended to on every sighting instead of a dict keyed by venue.
AddRoleListOfIssues(pir, p, iss, role) ==
    LET r1 == IF p \in DOMAIN pir.issues THEN pir
              ELSE [pir EXCEPT !.persons = Append(@, p),
                               !.issues = @ @@ (p :> <<>>)]
        r2 == IF <<p, iss>> \in DOMAIN r1.roles
              THEN [r1 EXCEPT !.issues[p] = Append(@, iss)]
              ELSE [r1 EXCEPT !.issues[p] = Append(@, iss),
                              !.roles = @ @@ (<<p, iss>> :> {})]
    IN [r2 EXCEPT !.roles[<<p, iss>>] = @ \cup {role}]

\* person_issue_roles.setdefault(p, {}).setdefault(iss, set()).add(role)
AddRole(pir, p, iss, role) ==
    LET r1 == IF p \in DOMAIN pir.issues THEN pir
              ELSE [pir EXCEPT !.persons = Append(@, p),
                               !.issues = @ @@ (p :> <<>>)]
        r2 == IF <<p, iss>> \in DOMAIN r1.roles THEN r1
              ELSE [r1 EXCEPT !.issues[p] = Append(@, iss),
                              !.roles = @ @@ (<<p, iss>> :> {})]
    IN [r2 EXCEPT !.roles[<<p, iss>>] = @ \cup {role}]

RECURSIVE RolesOfIssues(_, _, _, _)
RolesOfIssues(pir, u, v, issues) ==
    IF issues = <<>> THEN pir
    ELSE RolesOfIssues(
            AddRole(AddRole(pir, u, Head(issues), "editor"), v, Head(issues), "author"),
            u, v, Tail(issues))

\* The first loop over G.edges(data=True).
RECURSIVE RolesOfEdges(_, _, _)
RolesOfEdges(g, pir, es) ==
    IF es = <<>> THEN pir
    ELSE LET e == Head(es)
             pir1 == IF Contains(g.edge[e].relationship, EDITOR_TO_AUTHOR)
                     THEN RolesOfIssues(pir, e[1], e[2], g.edge[e].issues)
                     ELSE pir
         IN RolesOfEdges(g, pir1, Tail(es))

person_issue_roles(g) == RolesOfEdges(g, EmptyRoles, Edges(g))

RECURSIVE SelfOfPersons(_, _)
SelfOfPersons(pir, ps) ==
    IF ps = <<>> THEN <<>>
    ELSE LET p == Head(ps)
             hit == SelectSeq(pir.issues[p],
                        LAMBDA iss : /\ "editor" \in pir.roles[<<p, iss>>]
                                     /\ "author" \in pir.roles[<<p, iss>>])
         IN [k \in 1..Len(hit) |-> [person |-> p, issue |-> hit[k]]]
            \o SelfOfPersons(pir, Tail(ps))

\* suspicious_self
suspicious_self(g) ==
    LET pir == person_issue_roles(g) IN SelfOfPersons(pir, pir.persons)

\* The keys of ed_au_map in insertion order; ed_au_map[(u, v)] is the issues
\* list of the edge, every element of which the second loop appends.
ed_au_keys(g) ==
    SelectSeq(Edges(g),
        LAMBDA e : /\ Contains(g.edge[e].relationship, EDITOR_TO_AUTHOR)
                   /\ g.edge[e].issues # <<>>)

ed_au_map(g, e) == g.edge[e].issues

\* suspicious_recip
suspicious_recip(g) ==
    LET keys == ed_au_keys(g)
        hit == SelectSeq(keys, LAMBDA e : <<e[2], e[1]>> \in Range(keys))
    IN [k \in 1..Len(hit) |->
          [personA |-> hit[k][1],
           personB |-> hit[k][2],
           issues_A_ed_B_auth |-> ed_au_map(g, hit[k]),
           issues_B_ed_A_auth |-> ed_au_map(g, <<hit[k][2], hit[k][1]>>)]]

detect_suspicious_patterns(g) ==
    [self_overlap |-> suspicious_self(g), reciprocal |-> suspicious_recip(g)]

----------------------------------------------------------------------------
(* score_suspicion.                                                        *)

\* score_map[p] = score_map.get(p, 0) + k
Bump(m, p, k) ==
    IF p \in DOMAIN m THEN [m EXCEPT ![p] = @ + k] ELSE m @@ (p :> k)

RECURSIVE ScoreSelf(_, _)
ScoreSelf(m, ss) ==
    IF ss = <<>> THEN m ELSE ScoreSelf(Bump(m, Head(ss).person, 3), Tail(ss))

RECURSIVE ScoreRecip(_, _)
ScoreRecip(m, rs) ==
    IF rs = <<>> THEN m
    ELSE ScoreRecip(Bump(Bump(m, Head(rs).personA, 2), Head(rs).personB, 2), Tail(rs))

score_suspicion(s) == ScoreRecip(ScoreSelf(<<>>, s.self_overlap), s.reciprocal)

----------------------------------------------------------------------------
(* find_coauthor_clusters_directed.                                        *)

co_edges(g) ==
    SelectSeq(Edges(g), LAMBDA e : Contains(g.edge[e].relationship, CO_AUTHOR))

\* The nodes of G.edge_subgraph(co_edges), in G's node order.
co_nodes(g) ==
    LET ce == Range(co_edges(g))
        ends == {e[1] : e \in ce} \cup {e[2] : e \in ce}
    IN SelectSeq(g.nodes, LAMBDA n : n \in ends)

\* The neighbours of n in co_subgraph.to_undirected(), ce being its edges.
co_neighbours(ce, n) ==
    {e[2] : e \in {x \in ce : x[1] = n}} \cup {e[1] : e \in {x \in ce : x[2] = n}}

\* The breadth-first search of nx.connected_components from a start set.
RECURSIVE Bfs(_, _)
Bfs(ce, seen) ==
    LET next == seen \cup UNION {co_neighbours(ce, n) : n \in seen}
    IN IF next = seen THEN seen ELSE Bfs(ce, next)

\* nx.connected_components: every node not seen yet starts a component.
RECURSIVE Components(_, _, _)
Components(ce, ns, seen) ==
    IF ns = <<>> THEN <<>>
    ELSE IF Head(ns) \in seen THEN Components(ce, Tail(ns), seen)
    ELSE LET comp == Bfs(ce, {Head(ns)})
         IN <<comp>> \o Components(ce, Tail(ns), seen \cup comp)

\* sorted(list(comp))
RECURSIVE Sorted(_)
Sorted(S) ==
    IF S = {} THEN <<>>
    ELSE LET m == CHOOSE x \in S : \A y \in S \ {x} : StrLess(x, y)
         IN <<m>> \o Sorted(S \ {m})

\* A plausible slip: pairs are kept (len > 1 instead of len > 2).
ClustersKeepPairs(g) ==
    LET comps == Components(Range(co_edges(g)), co_nodes(g), {})
        big == SelectSeq(comps, LAMBDA c : Cardinality(c) > 1)
    IN [k \in 1..Len(big) |-> Sorted(big[k])]

find_coauthor_clusters_directed(g) ==
    LET comps == Components(Range(co_edges(g)), co_nodes(g), {})
        big == SelectSeq(comps, LAMBDA c : Cardinality(c) > 2)
    IN [k \in 1..Len(big) |-> Sorted(big[k])]

----------------------------------------------------------------------------
(* The inputs.                                                             *)

SeqsUpTo(S, n) == UNION {[1..k -> S] : k \in 0..n}

\* Raw names: two people, one of them also spelled with a capital and blanks.
RawNames == {<<"a">>, <<"b">>, <<" ", "A", " ">>}

Titles == {"t"}
Journals == {"J"}
SpecialIssues == {"S1", "S2"}

\* The records with ne editors and na authors.
Entries(ne, na) ==
    [title : Titles, journal : Journals, special_issue : SpecialIssues,
     editors : [1..ne -> RawNames], authors : [1..na -> RawNames]]

RECURSIVE InputSize(_)
InputSize(recs) ==
    IF recs = <<>> THEN 0
    ELSE 1 + Len(Head(recs).editors) + Len(Head(recs).authors) + InputSize(Tail(recs))

\* Six people, for the cluster analysis.
ClusterNames == {<<"a">>, <<"b">>, <<"c">>, <<"d">>, <<"e">>, <<"f">>}

\* Two or three of them, in ascending order.
ClusterAuthors ==
    {s \in [1..2 -> ClusterNames] \cup [1..3 -> ClusterNames] :
        \A i, j \in DOMAIN s : i < j => StrLess(s[i], s[j])}

\* Articles of two or three authors, without an editor or edited by "a".
ClusterEntries ==
    [title : Titles, journal : Journals, special_issue : {"S1"},
     editors : {<<>>, <<<<"a">>>>}, authors : ClusterAuthors]

\* The sources of load_and_merge_data: what happens when the path is visited.
RecordTokens == {"r1", "r2"}

Sources ==
    [kind : {"missing", "open_fails", "read_fails", "malformed"}, data : {<<>>}]
        \cup [kind : {"valid"}, data : SeqsUpTo(RecordTokens, MaxFileRecords)]

----------------------------------------------------------------------------
(* The state machine.                                                      *)

NoSusp == [self_overlap |-> <<>>, reciprocal |-> <<>>]

InitBuild ==
    /\ articles = <<>>
    /\ G = EmptyGraph
    /\ pc = "build"
    /\ susp = NoSusp
    /\ scores = <<>>
    /\ clusters = <<>>

Init ==
    /\ InitBuild
    /\ file_paths = <<>>
    /\ fidx = 0
    /\ all_data = <<>>
    /\ lpc = "returned"

\* One iteration of `for entry in articles` in build_partially_directed_graph.
Ingest(entry) ==
    /\ pc = "build"
    /\ articles' = Append(articles, entry)
    /\ G' = BuildEntry(G, entry)
    /\ UNCHANGED <<pc, susp, scores, clusters>>
    /\ UNCHANGED loadVars

\* main(), steps 3 and 4, on the graph the builder returned.
Analyse ==
    /\ pc = "build"
    /\ pc' = "done"
    /\ susp' = detect_suspicious_patterns(G)
    /\ scores' = score_suspicion(detect_suspicious_patterns(G))
    /\ clusters' = find_coauthor_clusters_directed(G)
    /\ UNCHANGED <<articles, G>>
    /\ UNCHANGED loadVars

Next ==
    \/ \E ne, na \in 0..MaxInput :
          /\ InputSize(articles) + 1 + ne + na <= MaxInput
          /\ \E entry \in Entries(ne, na) : Ingest(entry)
    \/ Analyse

Spec == Init /\ [][Next]_vars

NextClusters ==
    \/ /\ Len(articles) < MaxClusterRecords
       /\ \E entry \in ClusterEntries : Ingest(entry)
    \/ Analyse

SpecClusters == Init /\ [][NextClusters]_vars

----------------------------------------------------------------------------
(* load_and_merge_data.                                                    *)

InitLoad ==
    /\ InitBuild
    /\ file_paths \in SeqsUpTo(Sources, MaxFiles)
    /\ fidx = 0
    /\ all_data = <<>>
    /\ lpc = "loading"

Visiting(kinds) ==
    /\ lpc = "loading"
    /\ fidx < Len(file_paths)
    /\ file_paths[fidx + 1].kind \in kinds

\* os.path.exists(fpath) is false: warning, continue.
LoadMissing ==
    /\ Visiting({"missing"})
    /\ fidx' = fidx + 1
    /\ UNCHANGED <<file_paths, all_data, lpc>>
    /\ UNCHANGED buildVars

\* The path exists but open() raises (no permission, a directory): the
\* `with open(...)` is outside the try, so the exception leaves the function.
LoadOpenFails ==
    /\ Visiting({"open_fails"})
    /\ lpc' = "aborted"
    /\ UNCHANGED <<file_paths, fidx, all_data>>
    /\ UNCHANGED buildVars

\* json.load raises (the read fails, or the content does not parse): the
\* except clause prints and the loop goes on.
LoadJsonError ==
    /\ Visiting({"read_fails", "malformed"})
    /\ fidx' = fidx + 1
    /\ UNCHANGED <<file_paths, all_data, lpc>>
    /\ UNCHANGED buildVars

\* json.load returns the record array: all_data.extend(data).
LoadValid ==
    /\ Visiting({"valid"})
    /\ all_data' = all_data \o file_paths[fidx + 1].data
    /\ fidx' = fidx + 1
    /\ UNCHANGED <<file_paths, lpc>>
    /\ UNCHANGED buildVars

\* return all_data
LoadReturn ==
    /\ lpc = "loading"
    /\ fidx = Len(file_paths)
    /\ lpc' = "returned"
    /\ UNCHANGED <<file_paths, fidx, all_data>>
    /\ UNCHANGED buildVars

NextLoad ==
    \/ LoadMissing
    \/ LoadOpenFails
    \/ LoadJsonError
    \/ LoadValid
    \/ LoadReturn

SpecLoad == InitLoad /\ [][NextLoad]_vars

----------------------------------------------------------------------------
(* What the processed records say, for the properties below.               *)

Eds(k) == NormalizeAll(articles[k].editors)
Aus(k) == NormalizeAll(articles[k].authors)
Ven(k) == issue_id(articles[k])
Recs == 1..Len(articles)

\* The people of the graph.
Names == DOMAIN G.attr

HasLabel(u, v, label) ==
    has_edge(G, u, v) /\ Contains(G.edge[<<u, v>>].relationship, label)

\* The number of places at which pat occurs in s.
Occurrences(s, pat) ==
    Cardinality({i \in 0..(Len(s) - Len(pat)) : SubSeq(s, i + 1, i + Len(pat)) = pat})

\* u is listed as editor and v as author of record k.
Edited(u, v, k) == u \in Range(Eds(k)) /\ v \in Range(Aus(k))

\* u and v are listed at two different places of the author list of record k.
CoAuthored(u, v, k) ==
    \E i, j \in DOMAIN Aus(k) : i # j /\ Aus(k)[i] = u /\ Aus(k)[j] = v

\* The records that contribute to the edge u -> v.
ContributingRecords(u, v) == {k \in Recs : Edited(u, v, k) \/ CoAuthored(u, v, k)}

\* The contributions to the edge u -> v, counted by position: one per
\* (editor place, author place) and one per ordered pair of author places.
Contributions(u, v) ==
    Cardinality({t \in UNION {{k} \X (DOMAIN Eds(k)) \X (DOMAIN Aus(k)) : k \in Recs} :
                    Eds(t[1])[t[2]] = u /\ Aus(t[1])[t[3]] = v})
    + Cardinality({t \in UNION {{k} \X (DOMAIN Aus(k)) \X (DOMAIN Aus(k)) : k \in Recs} :
                    t[2] # t[3] /\ Aus(t[1])[t[2]] = u /\ Aus(t[1])[t[3]] = v})

\* The venues of the records in which u is editor and v author, in record order.
EditedVenues(u, v) ==
    LET idx == SelectSeq([k \in Recs |-> k], LAMBDA k : Edited(u, v, k))
    IN [n \in 1..Len(idx) |-> Ven(idx[n])]

----------------------------------------------------------------------------
(* C1 *)

\* Both directions exist and carry co_author for every author pair of a record.
BothDirections ==
    \A k \in Recs : \A i, j \in DOMAIN Aus(k) :
        i < j => /\ HasLabel(Aus(k)[i], Aus(k)[j], CO_AUTHOR)
                 /\ HasLabel(Aus(k)[j], Aus(k)[i], CO_AUTHOR)

\* The number of edges between (and on) two nodes.
EdgesBetween(p, q) == Cardinality({<<p, q>>, <<q, p>>} \cap DOMAIN G.edge)

\* C1 as stated: for every record and every pair of positions i < j of its
\* normalized author list there are exactly two edges between the two
\* authors, one in each direction, both carrying co_author.
C1_ExactlyTwoEdges ==
    /\ BothDirections
    /\ \A k \in Recs : \A i, j \in DOMAIN Aus(k) :
          i < j => EdgesBetween(Aus(k)[i], Aus(k)[j]) = 2

\* C1 amended: both directions exist and carry co_author; they are two edges
\* when the two positions hold different names and one self-loop when they
\* hold the same name; and u -> v carries co_author iff v -> u does.
C1_CoAuthorBothDirections ==
    /\ BothDirections
    /\ \A k \in Recs : \A i, j \in DOMAIN Aus(k) :
          i < j => EdgesBetween(Aus(k)[i], Aus(k)[j])
                      = IF Aus(k)[i] = Aus(k)[j] THEN 1 ELSE 2
    /\ \A u, v \in Names : HasLabel(u, v, CO_AUTHOR) <=> HasLabel(v, u, CO_AUTHOR)

\* An author list with a name twice and two different co-authors whose edge
\* was an editor edge before.
C1_Witness ==
    \E k \in Recs : \E i, j, m \in DOMAIN Aus(k) :
        /\ i < j
        /\ Aus(k)[i] # Aus(k)[j]
        /\ G.edge[<<Aus(k)[i], Aus(k)[j]>>].relationship
              = EDITOR_TO_AUTHOR \o COMMA \o CO_AUTHOR
        /\ m # i
        /\ Aus(k)[m] = Aus(k)[i]

----------------------------------------------------------------------------
(* C2 *)

\* C2: the adjacency of every node lists a successor at most once (one edge
\* per ordered pair); u -> v carries editor_to_author iff some record lists u
\* as editor and v as author; and the label occurs exactly once in the
\* relationship value of such an edge.
C2_EditorLabelOnce ==
    /\ \A k \in Recs : Range(Eds(k)) \cup Range(Aus(k)) \subseteq Names
    /\ DOMAIN G.edge \subseteq Names \X Names
    /\ DOMAIN G.adj = Names
    /\ \A u \in Names :
          /\ Cardinality(Range(G.adj[u])) = Len(G.adj[u])
          /\ \A v \in Names : has_edge(G, u, v) <=> v \in Range(G.adj[u])
    /\ \A u, v \in Names :
          /\ HasLabel(u, v, EDITOR_TO_AUTHOR) <=> \E k \in Recs : Edited(u, v, k)
          /\ HasLabel(u, v, EDITOR_TO_AUTHOR)
                => Occurrences(G.edge[<<u, v>>].relationship, EDITOR_TO_AUTHOR) = 1

\* An edge created as a co_author edge and edited later, the reverse edge
\* staying a pure co_author edge.
C2_Witness ==
    \E u, v \in Names :
        /\ u # v
        /\ has_edge(G, u, v)
        /\ G.edge[<<u, v>>].relationship = CO_AUTHOR \o COMMA \o EDITOR_TO_AUTHOR
        /\ G.edge[<<v, u>>].relationship = CO_AUTHOR

----------------------------------------------------------------------------
(* C3 *)

\* C3 as stated: on every edge issues and titles have the same length, the
\* number of records that contribute to the edge.
C3_OnePerRecord ==
    \A e \in DOMAIN G.edge :
        /\ Len(G.edge[e].issues) = Len(G.edge[e].titles)
        /\ Len(G.edge[e].issues) = Cardinality(ContributingRecords(e[1], e[2]))

\* C3 amended: on every edge issues and titles have the same length, the
\* number of contributions counted by position.
C3_OnePerContribution ==
    \A e \in DOMAIN G.edge :
        /\ Len(G.edge[e].issues) = Len(G.edge[e].titles)
        /\ Len(G.edge[e].issues) = Contributions(e[1], e[2])

\* An edge with more entries than contributing records: its source is
\* editor and co-author of its destination in the only record.
C3_Witness ==
    /\ Len(articles) = 1
    /\ \E e \in DOMAIN G.edge :
          /\ e[1] # e[2]
          /\ Edited(e[1], e[2], 1)
          /\ CoAuthored(e[1], e[2], 1)
          /\ Len(G.edge[e].issues) = 2

----------------------------------------------------------------------------
(* C4 *)

SelfEntries(p, v) ==
    {i \in DOMAIN susp.self_overlap : susp.self_overlap[i] = [person |-> p, issue |-> v]}

\* C4: after detection, a name that a record of venue V lists as editor and
\* as author has exactly one self_overlap entry for V, and no (person, issue)
\* pair occurs twice in self_overlap.
C4_SelfOverlapOnce ==
    pc = "done" =>
        /\ \A k \in Recs : \A p \in Range(Eds(k)) \cap Range(Aus(k)) :
              Cardinality(SelfEntries(p, Ven(k))) = 1
        /\ \A i, j \in DOMAIN susp.self_overlap :
              i # j => susp.self_overlap[i] # susp.self_overlap[j]

\* Two records of one venue in which the same person is editor and author.
C4_Witness ==
    /\ pc = "done"
    /\ Len(articles) = 2
    /\ Ven(1) = Ven(2)
    /\ \E p \in Names :
          /\ p \in Range(Eds(1)) \cap Range(Aus(1))
          /\ p \in Range(Eds(2)) \cap Range(Aus(2))
          /\ Cardinality(SelfEntries(p, Ven(1))) = 1

----------------------------------------------------------------------------
(* C5 *)

\* C5: after detection, when A edits B and B edits A there is a reciprocal
\* entry for (A, B) whose venue lists are the venues of the records in which
\* A was editor and B author, and those in which B was editor and A author.
C5_ReciprocalVenues ==
    pc = "done" =>
        \A a, b \in Names :
            (EditedVenues(a, b) # <<>> /\ EditedVenues(b, a) # <<>>) =>
                \E i \in DOMAIN susp.reciprocal :
                    /\ susp.reciprocal[i].personA = a
                    /\ susp.reciprocal[i].personB = b
                    /\ susp.reciprocal[i].issues_A_ed_B_auth = EditedVenues(a, b)
                    /\ susp.reciprocal[i].issues_B_ed_A_auth = EditedVenues(b, a)

----------------------------------------------------------------------------
(* C6 *)

SelfCount(p) ==
    Cardinality({i \in DOMAIN susp.self_overlap : susp.self_overlap[i].person = p})

RecipCount(p) ==
    Cardinality({i \in DOMAIN susp.reciprocal :
                    susp.reciprocal[i].personA = p \/ susp.reciprocal[i].personB = p})

\* C6: the score of p is 3 x (self_overlap entries naming p) + 2 x (reciprocal
\* entries naming p as personA or personB), and a person no entry names has
\* no score.
C6_ScoreFormula ==
    pc = "done" =>
        /\ DOMAIN scores = {p \in Names : SelfCount(p) + RecipCount(p) > 0}
        /\ \A p \in DOMAIN scores : scores[p] = 3 * SelfCount(p) + 2 * RecipCount(p)

----------------------------------------------------------------------------
(* C7 *)

\* The pairs of people with a co-author edge in either direction.
CoLinks ==
    LET co == {e \in DOMAIN G.edge : Contains(G.edge[e].relationship, CO_AUTHOR)}
    IN co \cup {<<e[2], e[1]>> : e \in co}

\* The people with a co-author edge.
CoPeople == {pr[1] : pr \in CoLinks}

\* The pairs joined by a chain of links through the people of `via`
\* (Warshall's closure, one intermediate person at a time).
RECURSIVE Chained(_, _)
Chained(links, via) ==
    IF via = {} THEN links
    ELSE LET w == CHOOSE x \in via : TRUE
             r == Chained(links, via \ {w})
             into == {pr[1] : pr \in {x \in r : x[2] = w}}
             from == {pr[2] : pr \in {x \in r : x[1] = w}}
         IN r \cup (into \X from)

\* The components of the co-author relation.
CoComponents ==
    LET people == CoPeople
        r == Chained(CoLinks, people)
    IN {{u} \cup {pr[2] : pr \in {x \in r : x[1] = u}} : u \in people}

\* C7: after the analysis the clusters are the components of at least 3
\* people of the co-author relation, each once, as ascending sequences, and
\* no person is in two clusters; the authors of a record with three names are
\* in one cluster, and a single record with two names gives no cluster.
C7_ClustersAreComponents ==
    pc = "done" =>
        /\ {Range(clusters[i]) : i \in DOMAIN clusters}
              = {c \in CoComponents : Cardinality(c) >= 3}
        /\ \A i, j \in DOMAIN clusters :
              i # j => Range(clusters[i]) \cap Range(clusters[j]) = {}
        /\ \A i \in DOMAIN clusters : \A m, n \in DOMAIN clusters[i] :
              m < n => StrLess(clusters[i][m], clusters[i][n])
        /\ \A k \in Recs :
              /\ Cardinality(Range(Aus(k))) >= 3
                    => \E i \in DOMAIN clusters : Range(Aus(k)) \subseteq Range(clusters[i])
              /\ (Len(articles) = 1 /\ Cardinality(Range(Aus(k))) <= 2) => clusters = <<>>

\* Two clusters, and an editor edge from a member of one to a member of the
\* other, which does not join them.
C7_Witness ==
    /\ pc = "done"
    /\ Len(clusters) = 2
    /\ \E u \in Range(clusters[1]) : \E v \in Range(clusters[2]) :
          HasLabel(u, v, EDITOR_TO_AUTHOR) \/ HasLabel(v, u, EDITOR_TO_AUTHOR)

----------------------------------------------------------------------------
(* C8 *)

\* C8: the graph is the one built from the records, and going through the
\* same records once more (the build of the records followed by the records
\* again) keeps the node keys, the edge keys and the relationship values, and
\* doubles the length of issues and titles, editor_count and author_count.
C8_ReingestDoubles ==
    LET twice == BuildFrom(G, articles)
    IN /\ G = build_partially_directed_graph(articles)
       /\ twice.nodes = G.nodes
       /\ DOMAIN twice.attr = DOMAIN G.attr
       /\ DOMAIN twice.edge = DOMAIN G.edge
       /\ twice.adj = G.adj
       /\ \A e \in DOMAIN G.edge :
             /\ twice.edge[e].relationship = G.edge[e].relationship
             /\ Len(twice.edge[e].issues) = 2 * Len(G.edge[e].issues)
             /\ Len(twice.edge[e].titles) = 2 * Len(G.edge[e].titles)
       /\ \A n \in DOMAIN G.attr :
             /\ twice.attr[n].editor_count = 2 * G.attr[n].editor_count
             /\ twice.attr[n].author_count = 2 * G.attr[n].author_count

\* Two records, an edge with both labels, a person counted in both roles.
C8_Witness ==
    /\ Len(articles) = 2
    /\ \E e \in DOMAIN G.edge :
          G.edge[e].relationship = CO_AUTHOR \o COMMA \o EDITOR_TO_AUTHOR
    /\ \E n \in DOMAIN G.attr :
          G.attr[n].editor_count >= 1 /\ G.attr[n].author_count >= 1

----------------------------------------------------------------------------
(* C9 *)

\* The record arrays of the valid sources, concatenated in source order.
RECURSIVE ValidRecords(_)
ValidRecords(srcs) ==
    IF srcs = <<>> THEN <<>>
    ELSE (IF Head(srcs).kind = "valid" THEN Head(srcs).data ELSE <<>>)
            \o ValidRecords(Tail(srcs))

\* C9: load_and_merge_data never aborts, and what it returns is the
\* concatenation of the record arrays of the valid sources.
C9_LoadAlwaysReturns ==
    /\ lpc # "aborted"
    /\ lpc = "returned" => all_data = ValidRecords(file_paths)

----------------------------------------------------------------------------
(* C10 *)

\* C10: after detection, every self_overlap entry {p, V} is backed by a
\* record of venue V listing p as editor and a record of venue V listing p as
\* author.
C10_SelfOverlapSound ==
    pc = "done" =>
        \A i \in DOMAIN susp.self_overlap :
            LET p == susp.self_overlap[i].person
                v == susp.self_overlap[i].issue
            IN /\ \E k \in Recs : Ven(k) = v /\ p \in Range(Eds(k))
               /\ \E k \in Recs : Ven(k) = v /\ p \in Range(Aus(k))

====
